---- MODULE Spec2Model ----
(***************************************************************************)
(* A model of the citation completion plugin: the legacy and the full     *)
(* citation grammar, bib-file discovery, the bibliography provider         *)
(* dispatcher, the two completion entry points of CitePlugin and the       *)
(* command handler of the quick panel.                                     *)
(*                                                                         *)
(* Spec runs the entry points and the dispatcher, GrammarSpec applies the  *)
(* matchers to command lines, PanelSpec runs the command handler.          *)
(*                                                                         *)
(* Text is a sequence of one-character strings.  A completion request is   *)
(* one action that runs the whole handler; the Return action hands the     *)
(* outcome back to the caller, after which nothing of the request is kept. *)
(***************************************************************************)
EXTENDS Integers, Sequences, FiniteSets, TLC

VARIABLES
    pc,          \* "Idle" between requests, "Done" when a handler has ended
    call,        \* the handler that ran and its arguments
    env,         \* what the file system, the settings and the provider do
    result,      \* what the handler returned or raised
    status,      \* sublime.status_message calls, in order
    dialogs,     \* sublime.error_message calls, in order
    log,         \* console prints of the dispatcher and the pipeline
    steps,       \* which stages of the pipeline were entered
    edits        \* what the command handler did to the view

vars == <<pc, call, env, result, status, dialogs, log, steps, edits>>

-----------------------------------------------------------------------------
(* Bounds *)

\* the longest entry list a provider returns
MaxEntries == 2

-----------------------------------------------------------------------------
(* Characters and strings *)

LowerSeq ==
    <<"a","b","c","d","e","f","g","h","i","j","k","l","m",
      "n","o","p","q","r","s","t","u","v","w","x","y","z">>

UpperSeq ==
    <<"A","B","C","D","E","F","G","H","I","J","K","L","M",
      "N","O","P","Q","R","S","T","U","V","W","X","Y","Z">>

LowerLetters == {LowerSeq[i] : i \in DOMAIN LowerSeq}

\* str.lower() on one character
LowerChar(c) ==
    IF \E i \in DOMAIN UpperSeq : UpperSeq[i] = c
    THEN LowerSeq[CHOOSE i \in DOMAIN UpperSeq : UpperSeq[i] = c]
    ELSE c

\* str.lower()
Lower(s) == [i \in DOMAIN s |-> LowerChar(s[i])]

\* s[::-1]
Reverse(s) == [i \in DOMAIN s |-> s[Len(s) + 1 - i]]

\* the Python test `p in s` on strings
Contains(p, s) ==
    \E i \in 0..(Len(s) - Len(p)) : SubSeq(s, i + 1, i + Len(p)) = p

-----------------------------------------------------------------------------
(* Regular expressions, as the re module matches them.  A pattern is a     *)
(* record; Ends(re, s, i) is the set of positions at which a match of re   *)
(* that starts at position i of s can end (backtracking explores them all, *)
(* so greedy and lazy quantifiers accept the same strings).                *)

Chr(c) == [t |-> "chr", c |-> c]
Cls(cs) == [t |-> "cls", cs |-> cs, neg |-> FALSE]
NotCls(cs) == [t |-> "cls", cs |-> cs, neg |-> TRUE]
Cat(rs) == [t |-> "cat", rs |-> rs]
Alt(rs) == [t |-> "alt", rs |-> rs]
Opt(r) == [t |-> "rep", r |-> r, min |-> 0, max |-> 1]
Star(r) == [t |-> "rep", r |-> r, min |-> 0, max |-> -1]
Rep(r, lo, hi) == [t |-> "rep", r |-> r, min |-> lo, max |-> hi]
NotAhead(r) == [t |-> "ahead", r |-> r, neg |-> TRUE]
Behind(lit) == [t |-> "behind", lit |-> lit]
Lit(s) == Cat([i \in DOMAIN s |-> Chr(s[i])])

RECURSIVE Ends(_, _, _)
RECURSIVE CatEnds(_, _, _, _)
RECURSIVE RepEnds(_, _, _, _, _)

Ends(re, s, i) ==
    CASE re.t = "chr" ->
            IF i <= Len(s) /\ s[i] = re.c THEN {i + 1} ELSE {}
      [] re.t = "cls" ->
            IF i <= Len(s) /\ ((s[i] \in re.cs) # re.neg) THEN {i + 1} ELSE {}
      [] re.t = "cat" -> CatEnds(re.rs, 1, s, {i})
      [] re.t = "alt" -> UNION {Ends(re.rs[k], s, i) : k \in DOMAIN re.rs}
      [] re.t = "rep" -> RepEnds(re, 0, s, {i}, {})
      [] re.t = "ahead" ->
            IF (Ends(re.r, s, i) # {}) # re.neg THEN {i} ELSE {}
      [] re.t = "behind" ->
            IF i - 1 >= Len(re.lit)
               /\ SubSeq(s, i - Len(re.lit), i - 1) = re.lit
            THEN {i} ELSE {}

\* the positions after matching rs[k], rs[k+1], ... from any position of from
CatEnds(rs, k, s, from) ==
    IF k > Len(rs) \/ from = {} THEN from
    ELSE CatEnds(rs, k + 1, s, UNION {Ends(rs[k], s, j) : j \in from})

\* the positions after n or more repetitions of re.r, where `from` are the
\* positions after exactly n repetitions and acc those already collected
RepEnds(re, n, s, from, acc) ==
    LET got == IF n >= re.min THEN acc \cup from ELSE acc
        next == UNION {Ends(re.r, s, j) : j \in from}
        fresh == IF n >= re.min THEN next \ got ELSE next
    IN  IF from = {} \/ (re.max >= 0 /\ n >= re.max) \/ fresh = {}
        THEN got
        ELSE RepEnds(re, n + 1, s, fresh, got)

\* the module's match(rex, str): rex.match anchors at the start of str
match(rex, str) == Ends(rex, str, 1) # {}

\* r"([^_]*_)?\*?([a-z]*?)etic\\"
OLD_STYLE_CITE_REGEX ==
    Cat(<< Opt(Cat(<<Star(NotCls({"_"})), Chr("_")>>)),
           Opt(Chr("*")),
           Star(Cls(LowerLetters)),
           Lit(<<"e","t","i","c","\\">>) >>)

UpperLetters == {UpperSeq[i] : i \in DOMAIN UpperSeq}

\* (?P<prefixN>c*)(?:,c*)* : the typed key and the keys before it
KeyList(c) == Cat(<< Star(c), Star(Cat(<<Chr(","), Star(c)>>)) >>)
InBrackets == NotCls({"[", "]", ","})
InBraces == NotCls({"{", "}", ","})

\* \][^\[]*\[   \)[^(]*\(   \}c*\{
BracketGroup == Cat(<< Chr("]"), Star(NotCls({"["})), Chr("[") >>)
ParenGroup == Cat(<< Chr(")"), Star(NotCls({"("})), Chr("(") >>)
BraceGroup(c) == Cat(<< Chr("}"), Star(c), Chr("{") >>)

\* (?:kcolb|txet)
QuoteKind == Alt(<< Lit(<<"k","c","o","l","b">>), Lit(<<"t","x","e","t">>) >>)

\* (?:ngierof|nehpyh|(?<=kcolb)dirbyh)
QuoteLanguage ==
    Alt(<< Lit(<<"n","g","i","e","r","o","f">>),
           Lit(<<"n","e","h","p","y","h">>),
           Cat(<< Behind(<<"k","c","o","l","b">>),
                  Lit(<<"d","i","r","b","y","h">>) >>) >>)

\* (?:p|P|f|ft|s|S|t|T|a|A)?
VolcitePrefix ==
    Opt(Alt(<< Chr("p"), Chr("P"), Chr("f"), Lit(<<"f","t">>), Chr("s"),
               Chr("S"), Chr("t"), Chr("T"), Chr("a"), Chr("A") >>))

\* (?:[\.\*\?]){0,2}
Marks == Rep(Cls({".", "*", "?"}), 0, 2)

\* (?:C|c(?!x)[a-z]*[A-Z]?) with the excluded continuation x
CiteName(x) ==
    Alt(<< Chr("C"),
           Cat(<< Chr("c"), NotAhead(x), Star(Cls(LowerLetters)),
                  Opt(Cls(UpperLetters)) >>) >>)

\* NEW_STYLE_CITE_REGEX is (?:b1|b2|...|b10)\\ over the reversed line; the
\* ten alternatives, in the order of the table:

\* \foreigntextquote{lang}[key
ForeignQuoteBranch ==
    Cat(<< KeyList(InBrackets), Chr("["), BraceGroup(NotCls({"{"})),
           Opt(Chr("*")), Lit(<<"e","t","o","u","q">>), QuoteKind,
           QuoteLanguage >>)

\* the plain quote alternative without its \*?
QuoteBranch_no_star ==
    Cat(<< KeyList(InBrackets), Chr("["), Lit(<<"e","t","o","u","q">>),
           QuoteKind >>)

\* \textquote[key
QuoteBranch ==
    Cat(<< KeyList(InBrackets), Chr("["), Opt(Chr("*")),
           Lit(<<"e","t","o","u","q">>), QuoteKind >>)

\* \foreigntextcquote{lang}[prenote][postnote]{key
ForeignCquoteBranch ==
    Cat(<< KeyList(InBraces), Chr("{"), Rep(BracketGroup, 0, 2),
           BraceGroup(NotCls({"{"})), Opt(Chr("*")),
           Lit(<<"e","t","o","u","q","c">>), QuoteKind, QuoteLanguage >>)

\* \textcquote[prenote][postnote]{key
CquoteBranch ==
    Cat(<< KeyList(InBraces), Chr("{"), Rep(BracketGroup, 0, 2),
           Opt(Chr("*")), Lit(<<"e","t","o","u","q","c">>), QuoteKind >>)

\* [prenote]{volume}[page]{ , reversed
VolumeUnit ==
    Cat(<< Chr("{"), Opt(BracketGroup), BraceGroup(NotCls({"{", "}"})),
           Opt(BracketGroup) >>)

\* \volcite[prenote]{volume}[page]{key
VolciteBranch ==
    Cat(<< KeyList(InBraces), VolumeUnit,
           Lit(<<"e","t","i","c","l","o","v">>), VolcitePrefix >>)

\* \volcites(multiprenote)(multipostnote)[prenote]{volume}[page]{key}...
VolcitesBranch ==
    Cat(<< KeyList(InBraces), VolumeUnit,
           Star(Cat(<< BraceGroup(NotCls({"{", "}"})), Opt(BracketGroup),
                       BraceGroup(NotCls({"{", "}"})), Opt(BracketGroup) >>)),
           Rep(ParenGroup, 0, 2),
           Lit(<<"s","e","t","i","c","l","o","v">>), VolcitePrefix >>)

\* the multi-key alternative without its (?!lov) exclusion
CitesBranch_any_name ==
    Cat(<< KeyList(InBraces), Chr("{"), Rep(BracketGroup, 0, 2),
           Star(Cat(<< BraceGroup(NotCls({"}"})), Rep(BracketGroup, 0, 2) >>)),
           Marks, Rep(ParenGroup, 0, 2), Lit(<<"s","e","t","i">>),
           CiteName(Cls({})) >>)

\* the multi-key alternative without the repetition of closed units
CitesBranch_one_unit ==
    Cat(<< KeyList(InBraces), Chr("{"), Rep(BracketGroup, 0, 2),
           Marks, Rep(ParenGroup, 0, 2), Lit(<<"s","e","t","i">>),
           CiteName(Lit(<<"l","o","v">>)) >>)

\* \cites(multiprenote)(multipostnote)[prenote][postnote]{key}...{key
CitesBranch ==
    Cat(<< KeyList(InBraces), Chr("{"), Rep(BracketGroup, 0, 2),
           Star(Cat(<< BraceGroup(NotCls({"}"})), Rep(BracketGroup, 0, 2) >>)),
           Marks, Rep(ParenGroup, 0, 2), Lit(<<"s","e","t","i">>),
           CiteName(Lit(<<"l","o","v">>)) >>)

\* (?!\*?teser|elyts)
NotResetOrStyle ==
    NotAhead(Alt(<< Cat(<< Opt(Chr("*")), Lit(<<"t","e","s","e","r">>) >>),
                    Lit(<<"e","l","y","t","s">>) >>))

\* \cite[prenote][postnote]{key
CiteBranch ==
    Cat(<< KeyList(InBraces), Chr("{"), Rep(BracketGroup, 0, 2), Marks,
           NotResetOrStyle, Star(Cls(LowerLetters \cup {"*"})),
           Lit(<<"e","t","i">>),
           CiteName(Alt(<< Lit(<<"l","o","v">>), Lit(<<"m","\\">>) >>)) >>)

\* \citeA<prenote>[postnote]{key
ApaciteBranch ==
    Cat(<< KeyList(InBraces), Chr("{"), Opt(BracketGroup),
           Opt(Cat(<< Chr(">"), Star(NotCls({"<"})), Chr("<") >>)),
           Opt(Alt(<< Cat(<< Opt(Lit(<<"P","N">>)),
                             Alt(<< Lit(<<"r","a","e","y">>),
                                    Lit(<<"r","o","h","t","u","a">>) >>) >>),
                      Lit(<<"P","N">>), Chr("A") >>)),
           Lit(<<"e","t","i","c">>),
           Opt(Alt(<< Lit(<<"l","l","u","f">>), Lit(<<"t","r","o","h","s">>) >>)),
           Opt(Lit(<<"k","s","a","m">>)) >>)

\* \bibentry{key
BibentryBranch ==
    Cat(<< Star(InBraces), Chr("{"),
           Lit(<<"y","r","t","n","e","b","i","b">>) >>)

Branches ==
    << ForeignQuoteBranch, QuoteBranch, ForeignCquoteBranch, CquoteBranch,
       VolciteBranch, VolcitesBranch, CitesBranch, CiteBranch, ApaciteBranch,
       BibentryBranch >>

NEW_STYLE_CITE_REGEX == Cat(<< Alt(Branches), Chr("\\") >>)

\* the alternatives of the table that accept the reversed line str
Accepting(str) ==
    {k \in DOMAIN Branches : match(Cat(<< Branches[k], Chr("\\") >>), str)}

\* the alternative the match is made with (the first that accepts), 0 if none
Family(str) ==
    IF Accepting(str) = {} THEN 0
    ELSE CHOOSE k \in Accepting(str) : \A j \in Accepting(str) : k <= j

\* m.group('prefixN') of that alternative: the group is greedy, so it ends
\* at the last position from which the rest of the pattern still matches
PrefixGroup(str) ==
    LET b == Branches[Family(str)]
        listed == b.rs[1].t = "cat"
        group == IF listed THEN b.rs[1].rs[1] ELSE b.rs[1]
        rest == Cat((IF listed THEN <<b.rs[1].rs[2]>> ELSE <<>>)
                    \o Tail(b.rs) \o <<Chr("\\")>>)
        ends == {j \in Ends(group, str, 1) : Ends(rest, str, j) # {}}
        last == CHOOSE j \in ends : \A i \in ends : i <= j
    IN  SubSeq(str, 1, last - 1)

\* CitePlugin.matches_line(line), CitePlugin.matches_fancy_prefix(line)
matches_line(line) ==
    match(OLD_STYLE_CITE_REGEX, line) \/ match(NEW_STYLE_CITE_REGEX, line)
matches_fancy_prefix(line) == match(OLD_STYLE_CITE_REGEX, line)

-----------------------------------------------------------------------------
(* Bibliography entries: mappings from field names to strings.  A provider  *)
(* may set any of the derived fields "<prefix_match>",                      *)
(* "<autocomplete_formatted>" and "<panel_formatted>" itself.               *)

HasKey(entry, k) == k \in DOMAIN entry

EntryPool ==
    << [keyword |-> <<"k","1">>, title |-> <<"A","u">>, author |-> <<"B","o">>],
       [keyword |-> <<"k","2">>, title |-> <<"Z">>, journaltitle |-> <<"J">>],
       [keyword |-> <<"k","3">>, title |-> <<"T">>, author |-> <<"X">>]
           @@ ("<prefix_match>" :> <<"k","3","A","U">>),
       [keyword |-> <<"a","u">>, title |-> <<"q">>]
           @@ ("<prefix_match>" :> <<"a","u","q">>)
           @@ ("<autocomplete_formatted>" :> <<"a","u","!">>)
           @@ ("<panel_formatted>" :> << <<"q">>, <<"a","u">> >>) >>

\* every list of at most n entries a provider may return
RECURSIVE EntryLists(_)
EntryLists(n) ==
    IF n = 0 THEN {<<>>}
    ELSE LET shorter == EntryLists(n - 1)
         IN  shorter \cup
             {Append(l, EntryPool[i]) : l \in {x \in shorter : Len(x) = n - 1},
                                        i \in DOMAIN EntryPool}

\* a format template: literal text and {field} references
Field(name) == [field |-> name, text |-> <<>>]
Text(s) == [field |-> "", text |-> s]

\* '{keyword}: {title}'
DEFAULT_AUTOCOMPLETE_FORMAT ==
    <<Field("keyword"), Text(<<":"," ">>), Field("title")>>

\* ["{title} ({keyword})", "{author}"]
DEFAULT_PANEL_FORMAT ==
    << <<Field("title"), Text(<<" ","(">>), Field("keyword"), Text(<<")">>)>>,
       <<Field("author")>> >>

\* the value a template sees for a field: the entry's own value, journal
\* falling back to journaltitle, and the empty string for a missing field
FieldValue(entry, name) ==
    IF HasKey(entry, name) THEN entry[name]
    ELSE IF name = "journal" /\ HasKey(entry, "journaltitle")
         THEN entry["journaltitle"]
         ELSE <<>>

RECURSIVE format_entry(_, _)
format_entry(template, entry) ==
    IF template = <<>> THEN <<>>
    ELSE LET part == Head(template)
             here == IF part.field = "" THEN part.text
                     ELSE FieldValue(entry, part.field)
         IN  here \o format_entry(Tail(template), entry)

\* the fields whose values make up the fallback prefix-match string
PREFIX_MATCH_FIELDS == <<"keyword", "title", "author", "journal">>

RECURSIVE ConcatFields(_, _)
ConcatFields(names, entry) ==
    IF names = <<>> THEN <<>>
    ELSE FieldValue(entry, Head(names)) \o ConcatFields(Tail(names), entry)

\* the lowercase concatenation of the entry's field values
create_prefix_match_str(entry) == Lower(ConcatFields(PREFIX_MATCH_FIELDS, entry))

\* the string _is_prefix searches: the provider's "<prefix_match>" as it is,
\* else the fallback
prefix_match(entry) ==
    IF HasKey(entry, "<prefix_match>")
    THEN entry["<prefix_match>"]
    ELSE create_prefix_match_str(entry)

\* _is_prefix
is_prefix(lower_prefix, entry) == Contains(lower_prefix, prefix_match(entry))

\* the list comprehension [c for c in completions if _is_prefix(lower_prefix, c)]
FilterByPrefix(lower_prefix, completions) ==
    SelectSeq(completions, LAMBDA c : is_prefix(lower_prefix, c))

\* `if prefix:` filter on prefix.lower(), else keep the list as it is
Filtered(prefix, completions) ==
    IF prefix # <<>> THEN FilterByPrefix(Lower(prefix), completions)
    ELSE completions

-----------------------------------------------------------------------------
(* Values and outcomes *)

\* what a function hands back: a value, or the exception it raised
NoneValue == [kind |-> "None", items |-> <<>>]
ListValue(items) == [kind |-> "list", items |-> items]

NoSteps ==
    [discovered |-> FALSE, dispatched |-> FALSE,
     instantiated |-> FALSE, invoked |-> FALSE, tried |-> <<>>]

Returned(value, printed, st) ==
    [exc |-> "", value |-> value, log |-> printed, steps |-> st]
Raised(exc, printed, st) ==
    [exc |-> exc, value |-> NoneValue, log |-> printed, steps |-> st]

\* what a handler hands to its caller
ResNone ==
    [kind |-> "None", items |-> <<>>, keys |-> <<>>, insert_char |-> "", exc |-> ""]
ResKey(key) ==
    [kind |-> "key", items |-> <<key>>, keys |-> <<>>, insert_char |-> "", exc |-> ""]
ResList(items) ==
    [kind |-> "list", items |-> items, keys |-> <<>>, insert_char |-> "", exc |-> ""]
ResListChar(items, ch) ==
    [kind |-> "list_and_char", items |-> items, keys |-> <<>>,
     insert_char |-> ch, exc |-> ""]
ResPair(formatted, keys) ==
    [kind |-> "formatted_and_keys", items |-> formatted, keys |-> keys,
     insert_char |-> "", exc |-> ""]
ResRaise(exc) ==
    [kind |-> "raise", items |-> <<>>, keys |-> <<>>, insert_char |-> "", exc |-> exc]

\* what the command handler did to the view: bracket completion, text
\* inserted at the cursor, replacements of the current word, the quick
\* panel, and the prefix, the outcome and the keys of its completion request
NoEdits ==
    [brackets |-> FALSE, inserted |-> <<>>, replaced |-> <<>>,
     shown |-> FALSE, panel |-> <<>>, auto_match |-> FALSE,
     removed |-> FALSE, request |-> "none", prefix |-> <<>>,
     completions |-> <<>>]

Outcome(res, notes, shown, printed, st) ==
    [result |-> res, status |-> notes, dialogs |-> shown, log |-> printed,
     steps |-> st]

-----------------------------------------------------------------------------
(* Bib-file discovery *)

\* kpsewhich(filename, file_format): the path the tool prints, or None when
\* the tool fails or cannot be run
kpsewhich(e) ==
    IF e.kpse = "None" THEN {}
    ELSE {[path |-> "kpsewhich", exists |-> e.kpse = "found"]}

\* the one candidate '../bibliography.bib' next to the master file, else the
\* path kpsewhich finds; a candidate counts only if the file exists
find_bib_files(e) ==
    LET candidates == IF e.local
                      THEN {[path |-> "../bibliography.bib", exists |-> TRUE]}
                      ELSE kpsewhich(e)
    IN  {c.path : c \in {x \in candidates : x.exists}}

-----------------------------------------------------------------------------
(* Provider registry and dispatcher *)

REGISTRY == {"traditional", "new"}

\* the 'bibliography' setting: unset, a string, or a value of another type
UnsetSetting == [set |-> FALSE, isStr |-> TRUE, val |-> ""]
StrSetting(v) == [set |-> TRUE, isStr |-> TRUE, val |-> v]
ListSetting == [set |-> TRUE, isStr |-> FALSE, val |-> "traditional"]

\* get_setting('bibliography', 'traditional')
get_setting_bibliography(e) ==
    IF e.setting.set THEN e.setting ELSE StrSetting("traditional")

\* the try block without `except NotImplementedError: return None`
run_command_invoke_no_decline(e, st) ==
    CASE e.method = "returns" -> Returned(ListValue(e.entries), <<>>, st)
      [] e.method = "returnsNone" -> Returned(NoneValue, <<>>, st)
      [] e.method = "TypeErrorSignature" ->
            Raised("BibPluginError", <<"is not properly implemented">>, st)
      [] e.method = "TypeErrorOther" -> Raised("TypeError", <<>>, st)
      [] e.method = "AttributeErrorCommand" ->
            Raised("BibPluginError", <<"does not implement">>, st)
      [] e.method = "AttributeErrorOther" -> Raised("AttributeError", <<>>, st)
      [] OTHER -> Raised(e.method, <<>>, st)

\* the try block of _run_command around the call of the provider's method
run_command_invoke(e, st) ==
    CASE e.method = "returns" -> Returned(ListValue(e.entries), <<>>, st)
      [] e.method = "returnsNone" -> Returned(NoneValue, <<>>, st)
      [] e.method = "TypeErrorSignature" ->
            Raised("BibPluginError", <<"is not properly implemented">>, st)
      [] e.method = "TypeErrorOther" -> Raised("TypeError", <<>>, st)
      [] e.method = "AttributeErrorCommand" ->
            Raised("BibPluginError", <<"does not implement">>, st)
      [] e.method = "AttributeErrorOther" -> Raised("AttributeError", <<>>, st)
      [] e.method = "NotImplementedError" -> Returned(NoneValue, <<>>, st)
      [] OTHER -> Raised(e.method, <<>>, st)

\* _run_command falling back to the traditional provider for an unknown name
run_command_with_fallback(plugin_name, e, st) ==
    LET st0 == [st EXCEPT !.tried =
                   IF plugin_name \in REGISTRY THEN Append(@, plugin_name)
                   ELSE @ \o <<plugin_name, "traditional">>]
        st1 == [st0 EXCEPT !.instantiated = TRUE]
    IN  IF ~e.instOK
        THEN Raised("BibPluginError", <<"Could not instantiate">>, st1)
        ELSE run_command_invoke(e, [st1 EXCEPT !.invoked = TRUE])

_run_command(plugin_name, e, st) ==
    LET st0 == [st EXCEPT !.tried = Append(@, plugin_name)]
    IN  IF plugin_name \notin REGISTRY
        THEN Raised("BibPluginError",
                    <<"Could not find bibliography plugin">>, st0)
        ELSE LET st1 == [st0 EXCEPT !.instantiated = TRUE]
             IN  IF ~e.instOK
                 THEN Raised("BibPluginError", <<"Could not instantiate">>, st1)
                 ELSE run_command_invoke(e, [st1 EXCEPT !.invoked = TRUE])

run_plugin_command(expect_result, e, st) ==
    LET configured == get_setting_bibliography(e)
        blank == configured.isStr /\ configured.val = ""
        plugin == IF blank THEN StrSetting("traditional") ELSE configured
        printed == IF blank THEN <<"bibliography setting is blank">> ELSE <<>>
    IN  IF ~plugin.isStr
        THEN Raised("TypeError", printed, st)
        ELSE LET r == _run_command(plugin.val, e, st)
                 all == printed \o r.log
             IN  IF r.exc # "" THEN Raised(r.exc, all, r.steps)
                 ELSE IF expect_result /\ r.value.kind = "None"
                      THEN Raised("BibPluginError", all, r.steps)
                      ELSE Returned(r.value, all, r.steps)

\* get_cite_completions without the `if not bib_files` check
get_cite_completions_unchecked(e) ==
    LET st == [NoSteps EXCEPT !.discovered = TRUE, !.dispatched = TRUE]
        r == run_plugin_command(TRUE, e, st)
    IN  [r EXCEPT !.log = <<"Bib files found: ">> \o r.log]

get_cite_completions(e) ==
    LET bib_files == find_bib_files(e)
        st == [NoSteps EXCEPT !.discovered = TRUE]
        printed == <<"Bib files found: ">>
    IN  IF bib_files = {}
        THEN Raised("NoBibFilesError", printed, st)
        ELSE LET r == run_plugin_command(TRUE, e, [st EXCEPT !.dispatched = TRUE])
             IN  [r EXCEPT !.log = printed \o r.log]

-----------------------------------------------------------------------------
(* The completion pipeline: CitePlugin *)

\* the attributes BibParsingError.__init__ gives an instance
BibParsingErrorAttrs == {"filename"}

\* formatted_entry of get_auto_completions
auto_formatted_entry(entry) ==
    IF HasKey(entry, "<autocomplete_formatted>")
    THEN entry["<autocomplete_formatted>"]
    ELSE format_entry(DEFAULT_AUTOCOMPLETE_FORMAT, entry)

\* formatted_entry of get_completions
panel_formatted_entry(entry) ==
    IF HasKey(entry, "<panel_formatted>")
    THEN entry["<panel_formatted>"]
    ELSE [i \in DOMAIN DEFAULT_PANEL_FORMAT |->
              format_entry(DEFAULT_PANEL_FORMAT[i], entry)]

\* [(formatted_entry(c), c['keyword']) for c in completions]
AutoPairs(completions) ==
    [i \in DOMAIN completions |->
        <<auto_formatted_entry(completions[i]), completions[i].keyword>>]

\* the early return without the grammar test: `if not prefix`
Suppressed_any_grammar(old_style, prefix) == prefix = <<>>

\* the early return with the `not` dropped: `if old_style and prefix`
Suppressed_with_prefix(old_style, prefix) == old_style /\ prefix # <<>>

\* the early return of get_auto_completions: `if old_style and not prefix`
Suppressed(old_style, prefix) == old_style /\ prefix = <<>>

\* the packaging with the closing-delimiter signal given for every grammar
AutoPackage_always_signal(completions, old_style) ==
    IF Len(completions) = 0 THEN ResList(<<>>)
    ELSE ResListChar(AutoPairs(completions), "{")

\* what get_auto_completions returns once the entries are filtered
AutoPackage(completions, old_style) ==
    IF Len(completions) = 0 THEN ResList(<<>>)
    ELSE IF old_style THEN ResListChar(AutoPairs(completions), "{")
         ELSE ResList(AutoPairs(completions))

get_auto_completions(prefix, line, e) ==
    LET old_style == match(OLD_STYLE_CITE_REGEX, Reverse(line))
    IN  IF Suppressed(old_style, prefix)
        THEN Outcome(ResList(<<>>), <<>>, <<>>, <<>>, NoSteps)
        ELSE
        LET r == get_cite_completions(e)
        IN  CASE r.exc = "NoBibFilesError" ->
                   Outcome(ResList(<<>>), <<"No bib files found!">>, <<>>,
                           r.log \o <<"No bib files found!">>, r.steps)
              [] r.exc = "BibParsingError" ->
                   IF "message" \in BibParsingErrorAttrs
                   THEN Outcome(ResList(<<>>), <<"Error occurred parsing">>, <<>>,
                                r.log \o <<"Error occurred parsing", "traceback">>,
                                r.steps)
                   ELSE Outcome(ResRaise("AttributeError"), <<>>, <<>>,
                                r.log, r.steps)
              [] r.exc \notin {"", "NoBibFilesError", "BibParsingError"} ->
                   Outcome(ResRaise(r.exc), <<>>, <<>>, r.log, r.steps)
              [] OTHER ->
                   Outcome(AutoPackage(Filtered(prefix, r.value.items), old_style),
                           <<>>, <<>>, r.log, r.steps)

\* the packaging without the `elif completions_length == 1` branch
PanelPackage_no_single(completions) ==
    IF Len(completions) = 0 THEN ResNone
    ELSE ResPair([i \in DOMAIN completions |->
                     panel_formatted_entry(completions[i])],
                 [i \in DOMAIN completions |-> completions[i].keyword])

\* the packaging with the keys collected in the opposite order
PanelPackage_keys_reversed(completions) ==
    IF Len(completions) = 0 THEN ResNone
    ELSE IF Len(completions) = 1 THEN ResList(<<completions[1].keyword>>)
         ELSE ResPair([i \in DOMAIN completions |->
                          panel_formatted_entry(completions[i])],
                      [i \in DOMAIN completions |->
                          completions[Len(completions) + 1 - i].keyword])

\* what get_completions returns once the entries are filtered
PanelPackage(completions) ==
    IF Len(completions) = 0 THEN ResNone
    ELSE IF Len(completions) = 1 THEN ResList(<<completions[1].keyword>>)
         ELSE ResPair([i \in DOMAIN completions |->
                          panel_formatted_entry(completions[i])],
                      [i \in DOMAIN completions |-> completions[i].keyword])

get_completions(prefix, line, e) ==
    LET r == get_cite_completions(e)
    IN  CASE r.exc = "NoBibFilesError" ->
               Outcome(ResNone, <<>>, <<"No bib files found!">>, r.log, r.steps)
          [] r.exc = "BibParsingError" ->
               IF "message" \in BibParsingErrorAttrs
               THEN Outcome(ResNone, <<>>, <<"Error occurred parsing">>,
                            r.log \o <<"traceback">>, r.steps)
               ELSE Outcome(ResRaise("AttributeError"), <<>>, <<>>,
                            r.log \o <<"traceback">>, r.steps)
          [] r.exc \notin {"", "NoBibFilesError", "BibParsingError"} ->
               Outcome(ResRaise(r.exc), <<>>, <<>>, r.log, r.steps)
          [] OTHER ->
               Outcome(PanelPackage(Filtered(prefix, r.value.items)),
                       <<>>, <<>>, r.log, r.steps)

-----------------------------------------------------------------------------
(* The command handler of the quick panel *)

\* the completion types the handler can load
COMPLETION_TYPE_NAMES == <<"cite">>

\* self.COMPLETION_TYPES.get(name)
get_completion_type(name) ==
    IF \E i \in DOMAIN COMPLETION_TYPE_NAMES : COMPLETION_TYPE_NAMES[i] = name
    THEN name ELSE "None"

\* the characters of NON_WORD_CHARACTERS that a line of the model can hold
NON_WORD_CHARACTERS ==
    { "/", "\\", "(", ")", "\"", "'", ":", ",", ".", ";", "<", ">", "~", "!",
      "@", "#", "$", "%", "^", "&", "*", "|", "+", "=", "[", "]", "{", "}",
      "?", " " }

\* get_current_word with the caret at the end of the line: where the run of
\* word characters before the caret starts
RECURSIVE WordStart(_, _)
WordStart(text, i) ==
    IF i = 0 \/ text[i] \in NON_WORD_CHARACTERS THEN i + 1
    ELSE WordStart(text, i - 1)

\* get_common_prefix for one empty selection at the end of the line
get_common_prefix(text) == SubSeq(text, WordStart(text, Len(text)), Len(text))

\* get_common_fancy_prefix: the text typed after a `_` in the current word,
\* and whether there are regions to remove
get_common_fancy_prefix(text) ==
    LET word == get_common_prefix(text)
        at == {i \in DOMAIN word : word[i] = "_"}
    IN  IF at = {} THEN [prefix |-> <<>>, remove_regions |-> FALSE]
        ELSE LET i == CHOOSE j \in at : \A k \in at : k <= j
             IN  [prefix |-> SubSeq(word, i + 1, Len(word)),
                  remove_regions |-> TRUE]

\* self.complete_brackets(view, edit, insert_char, ...)
complete_brackets(ed) == [ed EXCEPT !.brackets = TRUE]

\* View.insert(edit, point, string), as insert_at_end calls it
ViewInsertParameters == <<"edit", "point", "string">>
view_insert(ed, arguments, string) ==
    IF Len(arguments) = Len(ViewInsertParameters)
    THEN [exc |-> "", edits |-> [ed EXCEPT !.inserted = Append(@, string)]]
    ELSE [exc |-> "TypeError", edits |-> ed]

\* the handler returns without a completion request
Handled(ed, notes, printed) ==
    [result |-> ResNone, status |-> notes, dialogs |-> <<>>, log |-> printed,
     steps |-> NoSteps, edits |-> ed]

\* lines 93-175: the completion type the request goes to ("None" when the
\* search finds none), the prefix and whether regions are to be removed
select_completion_type(a, text, ins) ==
    LET fancy == get_common_fancy_prefix(text)
        ct == a.completion_type
        viaFancy == fancy.remove_regions /\ matches_fancy_prefix(Reverse(text))
        viaLine == ~viaFancy /\ matches_line(Reverse(text \o ins))
        names == IF ct.kind = "list" THEN ct.names ELSE COMPLETION_TYPE_NAMES
        hits == {i \in DOMAIN names :
                    get_completion_type(names[i]) # "None"
                    /\ (viaFancy \/ viaLine)}
    IN  IF ct.kind = "str"
        THEN [type |-> get_completion_type(ct.names[1]),
              prefix |-> IF ~a.force /\ viaFancy THEN fancy.prefix ELSE <<>>,
              remove_regions |->
                  IF ~a.force /\ viaLine THEN FALSE ELSE fancy.remove_regions]
        ELSE IF hits = {}
             THEN [type |-> "None", prefix |-> <<>>,
                   remove_regions |-> fancy.remove_regions]
             ELSE [type |-> names[CHOOSE i \in hits : \A j \in hits : i <= j],
                   prefix |-> IF viaFancy THEN fancy.prefix ELSE <<>>,
                   remove_regions |-> viaFancy]

\* lines 198-276: what the handler does with the outcome o of the request
\* it made with the prefix sel.prefix
use_completions(a, ins, sel, o) ==
    LET ed0 == [NoEdits EXCEPT !.prefix = sel.prefix]
        Ends_with(ed, res) ==
            [result |-> res, status |-> o.status, dialogs |-> o.dialogs,
             log |-> o.log, steps |-> o.steps, edits |-> ed]
        completions == IF o.result.kind = "formatted_and_keys"
                       THEN o.result.keys ELSE o.result.items
    IN  CASE o.result.kind = "raise" ->
               Ends_with(complete_brackets([ed0 EXCEPT !.request = "raise"]),
                         o.result)
          [] o.result.kind = "None" ->
               Ends_with(complete_brackets([ed0 EXCEPT !.request = "None"]),
                         ResNone)
          [] Len(completions) = 0 ->
               Ends_with(complete_brackets([ed0 EXCEPT !.request = "empty"]),
                         ResNone)
          [] Len(completions) = 1 ->
               LET ed1 == [ed0 EXCEPT !.request = "one",
                                      !.completions = completions]
                   key == completions[1]
               IN  IF a.force
                   THEN LET r == view_insert(ed1, <<"edit", key>>, key)
                        IN  Ends_with(r.edits,
                                      IF r.exc = "" THEN ResNone
                                      ELSE ResRaise(r.exc))
                   ELSE IF key = sel.prefix THEN Ends_with(ed1, ResNone)
                   ELSE Ends_with(
                            [ed1 EXCEPT
                                !.inserted = IF ins # <<>>
                                             THEN Append(@, ins \o key) ELSE @,
                                !.replaced = IF ins = <<>> /\ key # <<>>
                                             THEN Append(@, key) ELSE @,
                                !.auto_match = TRUE,
                                !.removed = sel.remove_regions],
                            ResNone)
          [] OTHER ->
               Ends_with([ed0 EXCEPT !.request = "many", !.shown = TRUE,
                                     !.panel = o.result.items,
                                     !.completions = completions],
                         ResNone)

\* lines 177-196: the prefix and the regions the request is made with
final_selection(a, text, ins, sel) ==
    LET fancy == get_common_fancy_prefix(text)
        typed == IF ins = <<>> /\ sel.prefix = <<>> /\ ~a.overwrite /\ ~a.force
                 THEN get_common_prefix(text) ELSE sel.prefix
        reset == ins # <<>> /\ typed # fancy.prefix
    IN  [type |-> sel.type, prefix |-> IF reset THEN <<>> ELSE typed,
         remove_regions |-> sel.remove_regions /\ ~reset]

\* lines 177-276: the request and what follows it
request_completions(a, text, ins, final, e) ==
    use_completions(a, ins, final,
                    get_completions(final.prefix, text \o ins, e))

\* lines 93-276: the handler once a completion type is given or searched for
run_selected(a, text, ins, sel, e) ==
    LET message == IF a.completion_type.kind = "list"
                   THEN "No valid completions found"
                   ELSE "Cannot determine completion type"
    IN  IF sel.type = "None"
        THEN Handled(complete_brackets(NoEdits), <<message>>, <<message>>)
        ELSE IF ins # <<>> /\ ~a.enabled
        THEN Handled(complete_brackets(NoEdits), <<>>, <<>>)
        ELSE request_completions(a, text, ins,
                                 final_selection(a, text, ins, sel), e)

\* run(self, edit, completion_type, insert_char, overwrite, force) with the
\* caret at the end of text
run(a, text, e) ==
    LET ct == a.completion_type
        ins == IF a.force \/ a.insert_char = "" THEN <<>> ELSE <<a.insert_char>>
    IN  IF ~a.in_scope THEN Handled(complete_brackets(NoEdits), <<>>, <<>>)
        ELSE IF ct.kind = "str" /\ get_completion_type(ct.names[1]) = "None"
        THEN Handled(IF a.force THEN NoEdits ELSE complete_brackets(NoEdits),
                     <<>>, <<>>)
        ELSE IF ct.kind # "str" /\ a.force
        THEN Handled(NoEdits, <<>>, <<"Cannot set force">>)
        ELSE run_selected(a, text, ins, select_completion_type(a, text, ins), e)

-----------------------------------------------------------------------------
(* Inputs *)

Roots == { <<"\\","c","i","t","e">>, <<"\\","r","e","f">>, <<"c","i","t","e">> }
Fancies == { <<>>, <<"t">> }
Tails == { <<>>, <<"*">>, <<"_">>, <<"_","a","u">>, <<"{">>, <<"{","a","u">> }

\* the text before the cursor
Lines == {r \o f \o t : r \in Roots, f \in Fancies, t \in Tails}

\* the text before the cursor in a command of the full grammar: a macro
\* name, then marks, paren groups and bracket groups, then the open key list
BracketRuns ==
    { <<>>, <<"[","a","]">>, <<"[","a","]","[","b","]">> }
ParenRuns ==
    { <<>>, <<"(","a",")">>, <<"(","a",")","(","b",")">> }
MarkChars == {"*", ".", "?"}
MarkRuns ==
    { <<>> } \cup { <<m>> : m \in MarkChars }
             \cup { <<m, n>> : m \in MarkChars, n \in MarkChars }
KeyTexts == { <<>>, <<"k">>, <<"k","1",",","k">> }

\* the names the generic single-key alternative is documented to exclude
ExcludedNames ==
    { <<"\\","c","i","t","e","r","e","s","e","t">>, 
      <<"\\","c","i","t","e","s","t","y","l","e">>, 
      <<"\\","m","c","i","t","e">> }

ExcludedLines ==
    {n \o m \o b \o <<"{">> \o k :
        n \in ExcludedNames, m \in MarkRuns, b \in BracketRuns, k \in KeyTexts}

\* macro names of the ten families, in the order of the table
MacroNames ==
    << { <<"\\","f","o","r","e","i","g","n","t","e","x","t","q","u","o","t","e">>,
           <<"\\","h","y","b","r","i","d","b","l","o","c","k","q","u","o","t","e">> },
       { <<"\\","t","e","x","t","q","u","o","t","e">>,
           <<"\\","b","l","o","c","k","q","u","o","t","e">> },
       { <<"\\","f","o","r","e","i","g","n","t","e","x","t","c","q","u","o","t","e">>,
           <<"\\","h","y","b","r","i","d","b","l","o","c","k","c","q","u","o","t","e">> },
       { <<"\\","t","e","x","t","c","q","u","o","t","e">>,
           <<"\\","b","l","o","c","k","c","q","u","o","t","e">> },
       { <<"\\","v","o","l","c","i","t","e">>,
           <<"\\","p","v","o","l","c","i","t","e">> },
       { <<"\\","v","o","l","c","i","t","e","s">>,
           <<"\\","p","v","o","l","c","i","t","e","s">> },
       { <<"\\","c","i","t","e","s">>,
           <<"\\","P","a","r","e","n","c","i","t","e","s">> },
       { <<"\\","c","i","t","e">>,
           <<"\\","c","i","t","e","t">>,
           <<"\\","C","i","t","e">>,
           <<"\\","c","i","t","e","a","u","t","h","o","r">>,
           <<"\\","f","u","l","l","c","i","t","e">> },
       { <<"\\","c","i","t","e","A">>,
           <<"\\","c","i","t","e","a","u","t","h","o","r","N","P">>,
           <<"\\","m","a","s","k","f","u","l","l","c","i","t","e","A">> },
       { <<"\\","b","i","b","e","n","t","r","y">> } >>

\* what stands between the name and the open key position, per family
OneBracket == { <<>>, <<"[","a","]">> }
Language == <<"{","l","}">>
Volume == <<"{","v","}">>
Openings ==
    << { Language \o <<"[">> },
       { <<"[">> },
       { Language \o b \o <<"{">> : b \in BracketRuns },
       { b \o <<"{">> : b \in BracketRuns },
       { b \o Volume \o c \o <<"{">> : b \in OneBracket, c \in OneBracket },
       { p \o b \o Volume \o c \o <<"{">> :
            p \in ParenRuns, b \in OneBracket, c \in OneBracket },
       { p \o b \o <<"{">> : p \in ParenRuns, b \in BracketRuns },
       { b \o <<"{">> : b \in BracketRuns },
       { a \o b \o <<"{">> : a \in { <<>>, <<"<","a",">">> }, b \in OneBracket },
       { <<"{">> } >>

\* the lines of family k that end exactly at the open key position
FamilyLines(k) == {n \o a : n \in MacroNames[k], a \in Openings[k]}
CommandLines == UNION {FamilyLines(k) : k \in DOMAIN MacroNames}

\* \cites lines: paren groups, complete units, then the open unit
MaxUnits == 2
ClosedKeys == <<"{","k","1","}">>
RECURSIVE Units(_)
Units(n) ==
    IF n = 0 THEN { <<>> }
    ELSE {u \o b \o ClosedKeys : u \in Units(n - 1), b \in BracketRuns}
UnitRuns == UNION {Units(n) : n \in 0..MaxUnits}
EarlierKeys == { <<>>, <<"k","0",",">> }
PartialKeys == { <<>>, <<"k","2">> }
CitesLine(p, u, b, e, k) ==
    <<"\\","c","i","t","e","s">> \o p \o u \o b \o <<"{">> \o e \o k
CitesLines ==
    {CitesLine(p, u, b, e, k) :
        p \in ParenRuns, u \in UnitRuns, b \in BracketRuns,
        e \in EarlierKeys, k \in PartialKeys}

\* the typed prefix
Prefixes == { <<>>, <<"a","u">>, <<"A","u">> }

Settings ==
    { UnsetSetting, StrSetting(""), StrSetting("traditional"), StrSetting("new"),
      StrSetting("bogus"), ListSetting }

\* the ways the provider's method can end without returning a list
MethodFailures ==
    { "returnsNone", "NotImplementedError", "TypeErrorSignature", "TypeErrorOther",
      "AttributeErrorCommand", "AttributeErrorOther", "BibParsingError",
      "OtherError" }

\* the settings under which the dispatcher reaches a registered provider
Resolving ==
    {s \in Settings :
        LET c == IF s.set THEN s ELSE StrSetting("traditional")
        IN  c.isStr /\ (IF c.val = "" THEN "traditional" ELSE c.val) \in REGISTRY}

\* setting, provider construction and provider method; what the dispatcher
\* never reads on a path is held at one value
ProviderEnvs ==
    {[setting |-> s, instOK |-> TRUE, method |-> "returns", entries |-> <<>>] :
        s \in Settings \ Resolving}
    \cup {[setting |-> s, instOK |-> FALSE, method |-> "returns", entries |-> <<>>] :
        s \in Resolving}
    \cup {[setting |-> s, instOK |-> TRUE, method |-> m, entries |-> <<>>] :
        s \in Resolving, m \in MethodFailures}
    \cup {[setting |-> s, instOK |-> TRUE, method |-> "returns", entries |-> l] :
        s \in Resolving, l \in EntryLists(MaxEntries)}

Discoveries ==
    { [local |-> TRUE, kpse |-> "None"], [local |-> FALSE, kpse |-> "None"],
      [local |-> FALSE, kpse |-> "found"], [local |-> FALSE, kpse |-> "stale"] }

WithDiscovery(d, p) ==
    [local |-> d.local, kpse |-> d.kpse, setting |-> p.setting,
     instOK |-> p.instOK, method |-> p.method, entries |-> p.entries]

QuietProvider ==
    [setting |-> UnsetSetting, instOK |-> TRUE, method |-> "returns",
     entries |-> <<>>]

Envs ==
    {WithDiscovery(d, QuietProvider) :
        d \in {x \in Discoveries : find_bib_files(x) = {}}}
    \cup {WithDiscovery(d, p) :
        d \in {x \in Discoveries : find_bib_files(x) # {}}, p \in ProviderEnvs}

\* the arguments of the command handler
StrType(name) == [kind |-> "str", names |-> <<name>>]
CompletionTypes ==
    { StrType("cite"), StrType("nope"), [kind |-> "None", names |-> <<>>],
      [kind |-> "list", names |-> <<"nope", "cite">>] }
RunArgs ==
    [in_scope : BOOLEAN, completion_type : CompletionTypes,
     insert_char : {"", "{"}, overwrite : BOOLEAN, force : BOOLEAN,
     enabled : BOOLEAN]

\* the text before the caret when the command runs
RunTexts ==
    { <<"\\","c","i","t","e">>,
      <<"\\","c","i","t","e","{">>,
      <<"\\","c","i","t","e","{","a","u">>,
      <<"\\","c","i","t","e","_","a","u">>,
      <<"\\","r","e","f","{">>,
      <<"\\","r","e","f","{","a","u">> }

\* the environments of the handler's request: the default provider
RunEnvs == {e \in Envs : e.setting = UnsetSetting /\ e.kpse = "None"}

-----------------------------------------------------------------------------
(* The state machine *)

NoCall == [op |-> "", prefix |-> <<>>, line |-> <<>>, expect_result |-> TRUE]
IdleEnv == WithDiscovery([local |-> FALSE, kpse |-> "None"], QuietProvider)

Init ==
    /\ pc = "Idle"
    /\ call = NoCall
    /\ env = IdleEnv
    /\ result = ResNone
    /\ status = <<>>
    /\ dialogs = <<>>
    /\ log = <<>>
    /\ steps = NoSteps
    /\ edits = NoEdits

Finish(c, e, o) ==
    /\ pc' = "Done"
    /\ call' = c
    /\ env' = e
    /\ result' = o.result
    /\ status' = o.status
    /\ dialogs' = o.dialogs
    /\ log' = o.log
    /\ steps' = o.steps
    /\ edits' = NoEdits

\* CitePlugin.get_auto_completions(view, prefix, line)
GetAutoCompletions ==
    /\ pc = "Idle"
    /\ \E prefix \in Prefixes, line \in Lines, e \in Envs :
          Finish([op |-> "get_auto_completions", prefix |-> prefix,
                  line |-> line, expect_result |-> TRUE],
                 e, get_auto_completions(prefix, line, e))

\* CitePlugin.get_completions(view, prefix, line)
GetCompletions ==
    /\ pc = "Idle"
    /\ \E prefix \in Prefixes, line \in Lines, e \in Envs :
          Finish([op |-> "get_completions", prefix |-> prefix,
                  line |-> line, expect_result |-> TRUE],
                 e, get_completions(prefix, line, e))

\* run_plugin_command('get_entries', *bib_files, expect_result=...)
RunPluginCommand ==
    /\ pc = "Idle"
    /\ \E expect_result \in BOOLEAN, p \in ProviderEnvs :
          LET e == WithDiscovery([local |-> TRUE, kpse |-> "None"], p)
              r == run_plugin_command(expect_result, e, NoSteps)
              res == IF r.exc # "" THEN ResRaise(r.exc)
                     ELSE IF r.value.kind = "None" THEN ResNone
                          ELSE ResList(r.value.items)
          IN  Finish([op |-> "run_plugin_command", prefix |-> <<>>,
                      line |-> <<>>, expect_result |-> expect_result],
                     e, Outcome(res, <<>>, <<>>, r.log, r.steps))

\* the caller takes the outcome; nothing of the request is kept
Return ==
    /\ pc = "Done"
    /\ pc' = "Idle"
    /\ call' = NoCall
    /\ env' = IdleEnv
    /\ result' = ResNone
    /\ status' = <<>>
    /\ dialogs' = <<>>
    /\ log' = <<>>
    /\ steps' = NoSteps
    /\ edits' = NoEdits

Next ==
    \/ GetAutoCompletions
    \/ GetCompletions
    \/ RunPluginCommand
    \/ Return

Spec == Init /\ [][Next]_vars

\* the lines the grammars are applied to
GrammarLines == Lines \cup ExcludedLines \cup CommandLines \cup CitesLines

ResBool(b) ==
    [kind |-> IF b THEN "True" ELSE "False", items |-> <<>>, keys |-> <<>>,
     insert_char |-> "", exc |-> ""]

\* CitePlugin.matches_line(line), called with the reversed text before the
\* cursor
MatchesLine ==
    /\ pc = "Idle"
    /\ \E line \in GrammarLines :
          Finish([op |-> "matches_line", prefix |-> <<>>, line |-> line,
                  expect_result |-> TRUE],
                 IdleEnv,
                 Outcome(ResBool(matches_line(Reverse(line))), <<>>, <<>>,
                         <<>>, NoSteps))

\* CitePlugin.matches_fancy_prefix(line)
MatchesFancyPrefix ==
    /\ pc = "Idle"
    /\ \E line \in Lines :
          Finish([op |-> "matches_fancy_prefix", prefix |-> <<>>,
                  line |-> line, expect_result |-> TRUE],
                 IdleEnv,
                 Outcome(ResBool(matches_fancy_prefix(Reverse(line))), <<>>,
                         <<>>, <<>>, NoSteps))

GrammarNext ==
    \/ MatchesLine
    \/ MatchesFancyPrefix
    \/ Return

GrammarSpec == Init /\ [][GrammarNext]_vars

\* the command handler run(edit, completion_type, insert_char, overwrite,
\* force)
Run ==
    /\ pc = "Idle"
    /\ \E a \in RunArgs, text \in RunTexts, e \in RunEnvs :
          LET o == run(a, text, e)
          IN  /\ pc' = "Done"
              /\ call' = [op |-> "run", prefix |-> <<>>, line |-> text,
                          expect_result |-> TRUE, args |-> a]
              /\ env' = e
              /\ result' = o.result
              /\ status' = o.status
              /\ dialogs' = o.dialogs
              /\ log' = o.log
              /\ steps' = o.steps
              /\ edits' = o.edits

PanelNext ==
    \/ Run
    \/ Return

PanelSpec == Init /\ [][PanelNext]_vars

-----------------------------------------------------------------------------
(* Properties *)

Ended(op) == pc = "Done" /\ call.op = op
Pipeline == {"get_auto_completions", "get_completions"}

\* the legacy grammar matches the reversed text before the cursor
OldStyle == match(OLD_STYLE_CITE_REGEX, Reverse(call.line))

\* the dispatcher, run on its own in the request's environment, fails
DispatchFails == run_plugin_command(TRUE, env, NoSteps).exc # ""

\* C1: whenever provider dispatch fails inside get_auto_completions or
\* get_completions, the entry point returns normally: no exception reaches
\* the caller.
C1_DispatchFailureCaught ==
    (pc = "Done" /\ call.op \in Pipeline /\ steps.dispatched /\ DispatchFails)
        => result.kind # "raise"

\* C2: in auto-trigger mode, when the provider fails with BibParsingError,
\* the call emits a status note and returns the empty list, and no exception
\* escapes from the handler.
C2_ParseFailureSuppressed ==
    (Ended("get_auto_completions") /\ steps.invoked
        /\ env.method = "BibParsingError")
        => /\ result = ResList(<<>>)
           /\ status # <<>>

\* C3: when discovery locates no bib file, the provider is never dispatched
\* and the request yields no completions; auto-trigger mode reports it by a
\* status note and no dialog, on-demand mode by an error dialog.
C3_NoBibFiles ==
    (pc = "Done" /\ call.op \in Pipeline /\ steps.discovered
        /\ find_bib_files(env) = {})
        => /\ ~steps.dispatched /\ ~steps.instantiated /\ ~steps.invoked
           /\ call.op = "get_auto_completions" =>
                 /\ result = ResList(<<>>)
                 /\ status = <<"No bib files found!">>
                 /\ dialogs = <<>>
           /\ call.op = "get_completions" =>
                 /\ result = ResNone
                 /\ dialogs = <<"No bib files found!">>

\* an on-demand request whose discovery found a stale kpsewhich path only
C3_Witness ==
    /\ Ended("get_completions")
    /\ steps.discovered
    /\ env.kpse = "stale"
    /\ find_bib_files(env) = {}
    /\ dialogs # <<>>

\* C4: in auto-trigger mode, when the legacy grammar matches and the typed
\* prefix is empty, the result is the empty list and neither discovery nor
\* dispatch has run.
C4_LegacyEmptyPrefixSuppressed ==
    (Ended("get_auto_completions") /\ OldStyle /\ call.prefix = <<>>)
        => /\ result = ResList(<<>>)
           /\ steps = NoSteps
           /\ status = <<>> /\ dialogs = <<>>

\* an auto-trigger request on the line \citet with nothing typed
C4_Witness ==
    /\ Ended("get_auto_completions")
    /\ call.line = <<"\\","c","i","t","e","t">>
    /\ call.prefix = <<>>
    /\ OldStyle
    /\ find_bib_files(env) # {}
    /\ env.entries # <<>>
    /\ result = ResList(<<>>)

\* the provider's method returned its list of entries to the pipeline
Retrieved == steps.invoked /\ env.method = "returns" /\ result.kind # "raise"

\* the entries left after prefix filtering
Kept == Filtered(call.prefix, env.entries)

Keywords(entries) == [i \in DOMAIN entries |-> entries[i].keyword]

\* the keys a handler's result offers, in order
ResultKeys ==
    IF call.op = "get_auto_completions"
    THEN [i \in DOMAIN result.items |-> result.items[i][2]]
    ELSE IF result.kind = "formatted_and_keys" THEN result.keys
         ELSE result.items

\* a bib file can be found and the provider has a non-empty list of entries
Available == find_bib_files(env) # {} /\ ~DispatchFails /\ env.entries # <<>>

CitetBrace == <<"\\","c","i","t","e","t","{">>
Typed_au == <<"a","u">>

\* the entries whose prefix-match string contains `au`
Containing_au(entries) ==
    SelectSeq(entries, LAMBDA c : Contains(Typed_au, prefix_match(c)))

C6_SingleResultBareKey ==
    (Ended("get_completions") /\ Retrieved /\ Len(Kept) = 1)
        => result = ResKey(Kept[1].keyword)

\* C6 (amended): on demand, with exactly one entry left after filtering, the
\* returned value is a list whose only element is the key of that entry, not
\* a (formatted_lines, keys) pair.
C6_SingleResultOneKeyList ==
    (Ended("get_completions") /\ Retrieved /\ Len(Kept) = 1)
        => result = ResList(<<Kept[1].keyword>>)

\* two entries retrieved, one of them left by the prefix
C6_Witness ==
    /\ Ended("get_completions")
    /\ Retrieved
    /\ call.prefix # <<>>
    /\ Len(env.entries) = 2
    /\ Len(Kept) = 1
    /\ result.kind = "list"

\* C7: on demand, with n >= 2 entries left after filtering, the result is a
\* pair (formatted_lines, keys), both of length n, where keys[i] is the
\* keyword and formatted_lines[i] the display sequence of the i-th filtered
\* entry.
C7_ParallelLists ==
    (Ended("get_completions") /\ Retrieved /\ Len(Kept) >= 2)
        => /\ result.kind = "formatted_and_keys"
           /\ Len(result.items) = Len(Kept)
           /\ Len(result.keys) = Len(Kept)
           /\ \A i \in DOMAIN Kept :
                 /\ result.keys[i] = Kept[i].keyword
                 /\ result.items[i] = panel_formatted_entry(Kept[i])

\* two different entries pass a typed prefix
C7_Witness ==
    /\ Ended("get_completions")
    /\ Retrieved
    /\ call.prefix # <<>>
    /\ Len(Kept) = 2
    /\ Kept[1].keyword # Kept[2].keyword
    /\ result.kind = "formatted_and_keys"

\* C8: in auto-trigger mode with at least one entry left after filtering the
\* result is the list of (display_string, key) pairs of the filtered entries,
\* in order, and it carries the closing-delimiter signal exactly when the
\* legacy grammar matched; with no entry left it is empty without a signal.
C8_AutoPackaging ==
    (Ended("get_auto_completions") /\ Retrieved)
        => IF Len(Kept) >= 1
           THEN /\ result.items =
                      [i \in DOMAIN Kept |->
                          <<auto_formatted_entry(Kept[i]), Kept[i].keyword>>]
                /\ OldStyle => (result.kind = "list_and_char"
                                   /\ result.insert_char = "{")
                /\ ~OldStyle => (result.kind = "list"
                                   /\ result.insert_char = "")
           ELSE result = ResList(<<>>)

\* the legacy form \citet_au with `au` typed: pairs and the signal
C8_Witness ==
    /\ Ended("get_auto_completions")
    /\ Retrieved
    /\ OldStyle
    /\ call.prefix = Typed_au
    /\ Len(Kept) >= 1
    /\ result.kind = "list_and_char"

\* C9: in both modes, for a non-empty prefix an entry is kept exactly when
\* the prefix occurs in its "<prefix_match>" string compared without regard
\* to case, also when the provider supplied that string; with an empty
\* prefix every entry is kept.
C9_CaseInsensitiveFilter ==
    (pc = "Done" /\ call.op \in Pipeline /\ Retrieved)
        => ResultKeys =
              Keywords(SelectSeq(env.entries,
                  LAMBDA c : \/ call.prefix = <<>>
                             \/ Contains(Lower(call.prefix),
                                         Lower(prefix_match(c)))))

\* C10: when the provider's method raises NotImplementedError the dispatcher
\* never passes that signal on: it returns None when expect_result is false
\* and raises BibPluginError when expect_result is true.
C10_NotApplicableIsNoResult ==
    (pc = "Done" /\ steps.invoked /\ env.method = "NotImplementedError")
        => /\ result.exc # "NotImplementedError"
           /\ call.expect_result => result = ResRaise("BibPluginError")
           /\ ~call.expect_result => result = ResNone

\* a direct dispatch with expect_result=False to a provider that declines
C10_Witness ==
    /\ Ended("run_plugin_command")
    /\ ~call.expect_result
    /\ steps.invoked
    /\ env.method = "NotImplementedError"
    /\ result = ResNone

\* the dispatcher ran: directly, or from get_cite_completions
Dispatched == pc = "Done" /\ (call.op = "run_plugin_command" \/ steps.dispatched)

\* the dispatcher's own prints: what the log holds after the pipeline's
\* "Bib files found: "
DispatchLog == SelectSeq(log, LAMBDA m : m # "Bib files found: ")

Diagnostics ==
    { "Could not find bibliography plugin", "Could not instantiate",
      "is not properly implemented", "does not implement" }

\* the dispatcher failed on one of its own paths: the setting is no string,
\* or it raised BibPluginError
DispatcherFailure ==
    /\ Dispatched
    /\ result.kind = "raise"
    /\ \/ ~env.setting.isStr
       \/ result.exc = "BibPluginError"

\* C12: every failure of the dispatcher (unknown provider, failed
\* instantiation, method missing or wrongly implemented, a setting that is
\* no string, no result while one is expected) has printed a diagnostic
\* message before it is raised.
C12_FailureIsLogged ==
    DispatcherFailure
        => \E i \in DOMAIN DispatchLog : DispatchLog[i] \in Diagnostics

\* the reversed line of the request
ReversedLine == Reverse(call.line)

\* C13: for every line whose macro name is \citereset, \citestyle or \mcite,
\* with zero or more `*`, `.` or `?` marks and 0 to 2 bracket groups before
\* the open key list, and any key-list text after the opening brace, the
\* generic single-key grammar (the eighth alternative) does not match.
C13_ExcludedNamesNotGeneric ==
    (Ended("matches_line") /\ call.line \in ExcludedLines)
        => 8 \notin Accepting(ReversedLine)

\* the family a command line was written for
IntendedFamily(line) == CHOOSE k \in DOMAIN MacroNames : line \in FamilyLines(k)

CommandLine == Ended("matches_line") /\ call.line \in CommandLines

RECURSIVE NameEnd(_, _)
NameEnd(line, i) ==
    IF i > Len(line) \/ line[i] \notin (LowerLetters \cup UpperLetters)
    THEN i - 1
    ELSE NameEnd(line, i + 1)

Starred(line) ==
    LET e == NameEnd(line, 2)
    IN  SubSeq(line, 1, e) \o <<"*">> \o SubSeq(line, e + 1, Len(line))

StarredFamily == Family(Reverse(Starred(call.line)))
HasParenGroup == \E i \in DOMAIN call.line : call.line[i] = "("

\* C15 as stated: for every line the full grammar matches, the line with a
\* single `*` added directly after the macro name is matched by the same
\* family.
C15_StarredSameFamily ==
    (CommandLine /\ Family(ReversedLine) # 0)
        => StarredFamily = Family(ReversedLine)

\* C15: for the quote families (alternatives 1 to 4) and the generic
\* single-key family (alternative 8), every unstarred line the family
\* matches is still matched, by the same family, once a single `*` is added
\* directly after the macro name; the multi-key family (7) takes the star
\* only when no paren group follows the name, and the volcite, volcites,
\* apacite and bibentry families (5, 6, 9, 10) do not match a starred name.
C15_StarWhereGrammarHasIt ==
    CommandLine =>
        LET f == Family(ReversedLine)
        IN  /\ f \in {1, 2, 3, 4, 8} => StarredFamily = f
            /\ f = 7 => StarredFamily = (IF HasParenGroup THEN 0 ELSE 7)
            /\ f \in {5, 6, 9, 10} => StarredFamily = 0

C15_Witness ==
    /\ CommandLine
    /\ call.line = <<"\\","t","e","x","t","q","u","o","t","e","[">>
    /\ Family(ReversedLine) = 2
    /\ StarredFamily = 2

\* C16: for every n >= 0, a line made of \cites, up to two paren groups, n
\* complete units (0 to 2 bracket groups and a closed {keys} group), then 0
\* to 2 bracket groups and an open `{` followed by a partial key, is matched
\* by the repeatable multi-key grammar, and the typed prefix it extracts is
\* the partial key of the last, still open unit.
C16_OpenUnitMatched ==
    Ended("matches_line") =>
        \A p \in ParenRuns, u \in UnitRuns, b \in BracketRuns,
           e \in EarlierKeys, k \in PartialKeys :
            call.line = CitesLine(p, u, b, e, k) =>
                /\ result.kind = "True"
                /\ Family(ReversedLine) = 7
                /\ PrefixGroup(ReversedLine) = Reverse(k)

C16_Witness ==
    /\ Ended("matches_line")
    /\ call.line = CitesLine(<<"(","a",")","(","b",")">>,
                             <<"[","a","]","[","b","]">> \o ClosedKeys,
                             <<"[","a","]","[","b","]">>, <<>>, <<"k","2">>)
    /\ Family(ReversedLine) = 7
    /\ PrefixGroup(ReversedLine) = <<"2","k">>

\* the line the handler matched: the text before the caret and the inserted
\* character
TypedLine ==
    IF call.op = "run" /\ ~call.args.force /\ call.args.insert_char # ""
    THEN call.line \o <<call.args.insert_char>>
    ELSE call.line

\* neither the legacy nor the full grammar matches the text before the caret
NoGrammar ==
    /\ ~matches_line(ReversedLine)
    /\ ~matches_line(Reverse(TypedLine))

\* C17: when no grammar matches the text before the cursor, a completion
\* request ends without bib-file discovery, without provider dispatch and
\* without any user-visible feedback (no status note and no dialog).
C17_NoMatchNoDiscovery ==
    (pc = "Done" /\ call.op \in Pipeline \cup {"run"} /\ NoGrammar)
        => /\ ~steps.discovered
           /\ ~steps.dispatched
           /\ status = <<>>
           /\ dialogs = <<>>

\* C18: in the command handler the choice list is shown only when two or
\* more completions were returned; with exactly one completion a key is
\* inserted or replaced directly without showing the list, except that the
\* buffer is left unchanged when the completion equals the typed prefix;
\* with no completions, a none result or a raised request only bracket
\* completion is performed, no key is inserted, and the exception is
\* re-raised.
Untouched == edits.inserted = <<>> /\ edits.replaced = <<>>
C18_HandlerOutcomes ==
    Ended("run") =>
        /\ edits.shown => Len(edits.completions) >= 2
        /\ edits.request = "one" =>
              /\ ~edits.shown
              /\ result = ResNone
              /\ IF edits.completions = <<edits.prefix>>
                 THEN Untouched /\ ~edits.brackets
                 ELSE Len(edits.inserted) + Len(edits.replaced) = 1
        /\ edits.request \in {"None", "empty", "raise"} =>
              /\ edits.brackets /\ Untouched /\ ~edits.shown
              /\ (edits.request = "raise") = (result.kind = "raise")

====
